---- MODULE Spec2Model ----
(***************************************************************************)
(* diesel-cte-ext: composition and rendering of WITH / WITH RECURSIVE      *)
(* common table expressions.                                               *)
(*                                                                         *)
(* SQL text is a sequence of characters (one-character strings), so that   *)
(* "byte-identical" is sequence equality.  An AstPass is the pair of the   *)
(* SQL text written so far and the bind values collected so far.  A        *)
(* render (walk_ast) is executed statement by statement: each statement of *)
(* the two walk_ast bodies is one instruction of a program, and the `?`    *)
(* operator ends the walk at the first instruction that returns Err.       *)
(***************************************************************************)
EXTENDS Integers, Sequences, FiniteSets, TLC

VARIABLES
    entity,     \* the composed CTE entity (WithRecursive / WithCte), or NoEntity
    args,       \* the arguments the entity was built from
    builds,     \* number of entities built so far
    phase,      \* "idle" | "walking" | "done": position of the current render
    pc,         \* index of the walk_ast statement to execute next
    out,        \* the AstPass of the current render: [sql, binds]
    res,        \* the value walk_ast returned: Pending | Ok | Err
    renders,    \* number of renders started on the current entity
    first,      \* outcome of the first finished render of the current entity
    cache,      \* the collaborator's statement cache: query id -> SQL text
    executed,   \* the statement the collaborator last sent for execution
    probe,      \* a fragment rendered directly and through QueryPart
    threads,    \* per thread: the position, pass and result of its render
    eval        \* the database's evaluation of the statement it was sent

vars == <<entity, args, builds, phase, pc, out, res, renders, first, cache,
          executed, probe, threads, eval>>

---------------------------------------------------------------------------
(* Bounds of the model.                                                    *)

MaxCols == 4
MaxRenders == 2
MaxBuilds == 2
NumThreads == 2
MaxN == 5

---------------------------------------------------------------------------
(* Characters.  SANY's lexer does not accept U+0060 inside a string, so    *)
(* the backtick is written as the one-character token "BQ".                *)

DQuote == "\""
Backtick == "BQ"

---------------------------------------------------------------------------
(* diesel: results, AstPass and the backends' query builders.              *)

Ok == [tag |-> "Ok"]
Pending == [tag |-> "Pending"]
Err(kind, msg) == [tag |-> "Err", kind |-> kind, msg |-> msg]
IsErr(r) == r.tag = "Err"

Backends == {"Sqlite", "Pg", "Mysql"}

AstPassNew == [sql |-> << >>, binds |-> << >>]

PushSql(o, s) == [o EXCEPT !.sql = @ \o s]

QuoteChar(db) == IF db = "Pg" THEN DQuote ELSE Backtick

RECURSIVE EscapeQuote(_, _)
EscapeQuote(id, q) ==
    IF id = << >> THEN << >>
    ELSE (IF Head(id) = q THEN <<q, q>> ELSE <<Head(id)>>)
         \o EscapeQuote(Tail(id), q)

PushIdentifier(o, db, id) ==
    [out |-> PushSql(PushSql(PushSql(o, <<QuoteChar(db)>>),
                             EscapeQuote(id, QuoteChar(db))),
                     <<QuoteChar(db)>>),
     res |-> Ok]

DigitChar == <<"1", "2", "3", "4", "5", "6", "7", "8", "9">>

RECURSIVE Decimal(_)
Decimal(n) ==
    IF n < 10 THEN <<IF n = 0 THEN "0" ELSE DigitChar[n]>>
    ELSE Decimal(n \div 10) \o Decimal(n % 10)

Placeholder(db, idx) ==
    IF db = "Pg" THEN <<"$">> \o Decimal(idx) ELSE <<"?">>

PushBindParam(o, db, v) ==
    [sql |-> o.sql \o Placeholder(db, Len(o.binds) + 1),
     binds |-> Append(o.binds, v)]

---------------------------------------------------------------------------
(* Query fragments.  A fragment is opaque to the composer: its walk_ast    *)
(* is a sequence of push_sql and push_bind_param calls on the pass, and it *)
(* may return Err after having written part of its output.                 *)

SqlNode(s) == [k |-> "sql", s |-> s, v |-> 0, e |-> Ok]
BindNode(v) == [k |-> "bind", s |-> << >>, v |-> v, e |-> Ok]
FailNode(e) == [k |-> "fail", s |-> << >>, v |-> 0, e |-> e]

\* ty: the fragment's type; static: its HAS_STATIC_QUERY_ID; safe: whether
\* its walk_ast leaves the pass safe to cache as a prepared statement
\* (a raw SqlLiteral calls unsafe_to_cache_prepared).
Fragment(ty, static, safe, nodes) ==
    [ty |-> ty, static |-> static, safe |-> safe, nodes |-> nodes]

SerializationError == Err("SerializationError", <<"bind">>)

\* sql::<Integer>("S1"), sql::<Integer>("S2"): raw SQL literals
LitS1 == Fragment("SqlLiteral", FALSE, FALSE, <<SqlNode(<<"S", "1">>)>>)
LitS2 == Fragment("SqlLiteral", FALSE, FALSE, <<SqlNode(<<"S", "2">>)>>)
\* sql("n<").bind(5): a literal followed by one bind parameter
LitBind == Fragment("UncheckedBind", FALSE, FALSE,
                    <<SqlNode(<<"n", "<">>), BindNode(5)>>)
\* two bind parameters around an operator
TwoBinds == Fragment("Grouped", TRUE, TRUE,
                     <<BindNode(7), SqlNode(<<"+">>), BindNode(8)>>)
\* a fragment whose second bind fails to serialise, after partial output
Failing == Fragment("UncheckedBind", FALSE, FALSE,
                    <<SqlNode(<<"x", "=">>), BindNode(9),
                      FailNode(SerializationError)>>)

\* a boxed select statement: no static query id, safe to cache by its SQL
BoxedA == Fragment("BoxedSelectStatement", FALSE, TRUE,
                   <<SqlNode(<<"A">>), BindNode(1)>>)

\* a fragment that fails before writing anything, with an error of the
\* kind the column validator uses
\* sql::<Integer>("SELECT 1"), sql::<Integer>("SELECT n + 1 FROM t WHERE
\* n < N") and sql::<Integer>("SELECT n FROM t")
SelectOne ==
    Fragment("SqlLiteral", FALSE, FALSE, <<SqlNode(
      <<"S", "E", "L", "E", "C", "T", " ", "1">>)>>)
StepUpTo(n) ==
    Fragment("SqlLiteral", FALSE, FALSE, <<SqlNode(
      <<"S", "E", "L", "E", "C", "T", " ", "n", " ", "+", " ", "1", " ",
        "F", "R", "O", "M", " ", "t", " ", "W", "H", "E", "R", "E", " ",
        "n", " ", "<", " ">>
      \o Decimal(n))>>)
SelectN ==
    Fragment("SqlLiteral", FALSE, FALSE, <<SqlNode(
      <<"S", "E", "L", "E", "C", "T", " ", "n", " ", "F", "R", "O", "M",
        " ", "t">>)>>)

InnerError == Err("QueryBuilderError", <<"inner">>)
FailingFirst == Fragment("Custom", FALSE, FALSE, <<FailNode(InnerError)>>)

RECURSIVE NodesWalk(_, _, _)
NodesWalk(nodes, o, db) ==
    IF nodes = << >> THEN [out |-> o, res |-> Ok]
    ELSE LET n == Head(nodes) IN
         CASE n.k = "sql"  -> NodesWalk(Tail(nodes), PushSql(o, n.s), db)
           [] n.k = "bind" -> NodesWalk(Tail(nodes), PushBindParam(o, db, n.v), db)
           [] n.k = "fail" -> [out |-> o, res |-> n.e]

---------------------------------------------------------------------------
(* macros.rs: QueryPart, its constructors and the wrapping macros.         *)

QueryPartNew(expr) == [ty |-> "QueryPart", inner |-> expr]
QueryPartFrom(expr) == [ty |-> "QueryPart", inner |-> expr]
cte_query(expr) == QueryPartNew(expr)
seed_query(expr) == cte_query(expr)
step_query(expr) == cte_query(expr)

RECURSIVE FragWalk(_, _, _)
QueryPartWalkAstParen(p, o, db) ==
    LET r == FragWalk(p.inner, PushSql(o, <<"(">>), db) IN
    [out |-> PushSql(r.out, <<")">>), res |-> r.res]
QueryPartWalkAst(p, o, db) == FragWalk(p.inner, o, db)
FragWalk(f, o, db) ==
    IF f.ty = "QueryPart" THEN QueryPartWalkAst(f, o, db)
    ELSE NodesWalk(f.nodes, o, db)

\* A QueryPart forwards the pass, so it is as safe to cache as what it wraps.
RECURSIVE FragSafeToCache(_)
FragSafeToCache(f) ==
    IF f.ty = "QueryPart" THEN FragSafeToCache(f.inner) ELSE f.safe

\* The Rust type of a fragment, and the QueryId it reports.
RECURSIVE TypeOf(_)
TypeOf(f) == IF f.ty = "QueryPart" THEN <<"QueryPart", TypeOf(f.inner)>>
             ELSE <<f.ty>>

RECURSIVE FragQueryId(_)
RECURSIVE FragHasStaticQueryId(_)
QueryPartQueryId(p) == FragQueryId(p.inner)
QueryPartHasStaticQueryId(p) == FragHasStaticQueryId(p.inner)
FragQueryId(f) == IF f.ty = "QueryPart" THEN QueryPartQueryId(f)
                  ELSE <<f.ty>>
FragHasStaticQueryId(f) ==
    IF f.ty = "QueryPart" THEN QueryPartHasStaticQueryId(f) ELSE f.static

---------------------------------------------------------------------------
(* cte.rs: column validation and the column clause.                        *)

DuplicateColumn(name) ==
    Err("QueryBuilderError", <<"duplicate column name '", name, "' in CTE">>)

RECURSIVE EnsureLoopLast(_, _, _)
EnsureLoopLast(names, i, seen) ==
    IF i < 1 THEN Ok
    ELSE IF names[i] \in seen THEN DuplicateColumn(names[i])
    ELSE EnsureLoopLast(names, i - 1, seen \cup {names[i]})
ensure_unique_columns_backwards(names) == EnsureLoopLast(names, Len(names), {})

RECURSIVE EnsureLoop(_, _, _)
EnsureLoop(names, i, seen) ==
    IF i > Len(names) THEN Ok
    ELSE IF names[i] \in seen THEN DuplicateColumn(names[i])
    ELSE EnsureLoop(names, i + 1, seen \cup {names[i]})

\* ensure_unique_columns comparing the names after trimming blanks and
\* folding letter case
LowerChar(c) ==
    CASE c = "I" -> "i"
      [] c = "D" -> "d"
      [] OTHER -> c
RECURSIVE TrimStart(_)
TrimStart(n) ==
    IF n # << >> /\ Head(n) = " " THEN TrimStart(Tail(n)) ELSE n
RECURSIVE TrimEnd(_)
TrimEnd(n) ==
    IF n # << >> /\ n[Len(n)] = " " THEN TrimEnd(SubSeq(n, 1, Len(n) - 1))
    ELSE n
Folded(n) ==
    LET t == TrimEnd(TrimStart(n)) IN [i \in 1..Len(t) |-> LowerChar(t[i])]
RECURSIVE EnsureLoopFolded(_, _, _)
EnsureLoopFolded(names, i, seen) ==
    IF i > Len(names) THEN Ok
    ELSE IF Folded(names[i]) \in seen THEN DuplicateColumn(names[i])
    ELSE EnsureLoopFolded(names, i + 1, seen \cup {Folded(names[i])})
ensure_unique_columns_folded(names) == EnsureLoopFolded(names, 1, {})

ensure_unique_columns(names) == EnsureLoop(names, 1, {})

COLS_OPEN == <<" ", "(">>
COMMA_SP == <<",", " ">>
COLS_CLOSE == <<")">>

RECURSIVE IdLoopLeadingComma(_, _, _, _)
IdLoopLeadingComma(o, db, ids, i) ==
    IF i > Len(ids) THEN [out |-> o, res |-> Ok]
    ELSE LET sep == PushSql(o, COMMA_SP)
             r == PushIdentifier(sep, db, ids[i])
         IN IF IsErr(r.res) THEN r
            ELSE IdLoopLeadingComma(r.out, db, ids, i + 1)

RECURSIVE IdLoop(_, _, _, _)
IdLoop(o, db, ids, i) ==
    IF i > Len(ids) THEN [out |-> o, res |-> Ok]
    ELSE LET sep == IF i > 1 THEN PushSql(o, COMMA_SP) ELSE o
             r == PushIdentifier(sep, db, ids[i])
         IN IF IsErr(r.res) THEN r ELSE IdLoop(r.out, db, ids, i + 1)

\* push_identifiers without the early return for an empty list
push_identifiers_no_empty_check(o, db, cols) ==
    LET ids == cols.names
        u == ensure_unique_columns(ids) IN
    IF IsErr(u) THEN [out |-> o, res |-> u]
    ELSE LET r == IdLoop(PushSql(o, COLS_OPEN), db, ids, 1) IN
         IF IsErr(r.res) THEN r
         ELSE [out |-> PushSql(r.out, COLS_CLOSE), res |-> Ok]

\* push_identifiers validating after the opening parenthesis is written
push_identifiers_late_check(o, db, cols) ==
    LET ids == cols.names IN
    IF ids = << >> THEN [out |-> o, res |-> Ok]
    ELSE LET u == ensure_unique_columns(ids)
             p == PushSql(o, COLS_OPEN) IN
         IF IsErr(u) THEN [out |-> p, res |-> u]
         ELSE LET r == IdLoop(p, db, ids, 1) IN
              IF IsErr(r.res) THEN r
              ELSE [out |-> PushSql(r.out, COLS_CLOSE), res |-> Ok]

\* push_identifiers validating the names on the first render only
push_identifiers_check_once(o, db, cols) ==
    LET ids == cols.names IN
    IF ids = << >> THEN [out |-> o, res |-> Ok]
    ELSE LET u == IF renders > 1 THEN Ok ELSE ensure_unique_columns(ids) IN
         IF IsErr(u) THEN [out |-> o, res |-> u]
         ELSE LET r == IdLoop(PushSql(o, COLS_OPEN), db, ids, 1) IN
              IF IsErr(r.res) THEN r
              ELSE [out |-> PushSql(r.out, COLS_CLOSE), res |-> Ok]

\* push_identifiers without the call of ensure_unique_columns
push_identifiers_unchecked(o, db, cols) ==
    LET ids == cols.names IN
    IF ids = << >> THEN [out |-> o, res |-> Ok]
    ELSE LET r == IdLoop(PushSql(o, COLS_OPEN), db, ids, 1) IN
         IF IsErr(r.res) THEN r
         ELSE [out |-> PushSql(r.out, COLS_CLOSE), res |-> Ok]

push_identifiers(o, db, cols) ==
    LET ids == cols.names IN
    IF ids = << >> THEN [out |-> o, res |-> Ok]
    ELSE LET u == ensure_unique_columns(ids) IN
         IF IsErr(u) THEN [out |-> o, res |-> u]
         ELSE LET r == IdLoop(PushSql(o, COLS_OPEN), db, ids, 1) IN
              IF IsErr(r.res) THEN r
              ELSE [out |-> PushSql(r.out, COLS_CLOSE), res |-> Ok]

---------------------------------------------------------------------------
(* columns.rs, builders.rs, connection_ext.rs: construction.               *)

NoEntity == [variant |-> "none"]

\* Columns<Cols>: the borrowed names paired with the schema marker.
ColumnsFrom(names) == [names |-> names, marker |-> "Cols"]

RecursivePartsNew(seed, step, body) ==
    [seed |-> seed, step |-> step, body |-> body]
CtePartsNew(cte, body) == [cte |-> cte, body |-> body]

RecursiveBackend == {"Sqlite", "Pg"}

\* with_recursive validating the column names when the entity is built
with_recursive_validating(db, cte_name, columns, parts) ==
    IF IsErr(ensure_unique_columns(columns)) THEN NoEntity
    ELSE [variant |-> "WithRecursive", db |-> db, cte_name |-> cte_name,
          columns |-> ColumnsFrom(columns),
          seed |-> parts.seed, step |-> parts.step, body |-> parts.body]
with_recursive(db, cte_name, columns, parts) ==
    [variant |-> "WithRecursive", db |-> db, cte_name |-> cte_name,
     columns |-> ColumnsFrom(columns),
     seed |-> parts.seed, step |-> parts.step, body |-> parts.body]

with_cte(db, cte_name, columns, cte, body) ==
    [variant |-> "WithCte", db |-> db, cte_name |-> cte_name,
     columns |-> ColumnsFrom(columns), cte |-> cte, body |-> body]

\* impl RecursiveCTEExt for <connection type>: the associated Backend.
Connections ==
    {"PgConnection", "SqliteConnection", "AsyncPgConnection",
     "SyncConnectionWrapper"}
ConnBackend(conn) ==
    CASE conn = "PgConnection" -> "Pg"
      [] conn = "SqliteConnection" -> "Sqlite"
      [] conn = "AsyncPgConnection" -> "Pg"
      [] conn = "SyncConnectionWrapper" -> "Sqlite"

ext_with_recursive_swapped(conn, cte_name, columns, parts) ==
    with_recursive(ConnBackend(conn), cte_name, columns,
                   RecursivePartsNew(parts.step, parts.seed, parts.body))
ext_with_recursive(conn, cte_name, columns, parts) ==
    with_recursive(ConnBackend(conn), cte_name, columns, parts)

ext_with_cte(conn, cte_name, columns, parts) ==
    with_cte(ConnBackend(conn), cte_name, columns, parts.cte, parts.body)

---------------------------------------------------------------------------
(* cte.rs: the two walk_ast bodies, one instruction per statement.         *)

WITH_RECURSIVE_SP ==
    <<"W", "I", "T", "H", " ", "R", "E", "C", "U", "R", "S", "I", "V", "E", " ">>
WITH_SP == <<"W", "I", "T", "H", " ">>
AS_OPEN == <<" ", "A", "S", " ", "(">>
UNION_ALL == <<" ", "U", "N", "I", "O", "N", " ", "A", "L", "L", " ">>
CLOSE_SP == <<")", " ">>

Ins(op, arg) == [op |-> op, arg |-> arg]

WithRecursiveWalkAstStepFirst ==
    << Ins("push_sql", WITH_RECURSIVE_SP),
       Ins("push_identifier", "cte_name"),
       Ins("push_identifiers", "columns"),
       Ins("push_sql", AS_OPEN),
       Ins("walk_ast", "step"),
       Ins("push_sql", UNION_ALL),
       Ins("walk_ast", "seed"),
       Ins("push_sql", CLOSE_SP),
       Ins("walk_ast", "body") >>
\* the seed and the step joined by UNION
WithRecursiveWalkAstUnion ==
    << Ins("push_sql", WITH_RECURSIVE_SP),
       Ins("push_identifier", "cte_name"),
       Ins("push_identifiers", "columns"),
       Ins("push_sql", AS_OPEN),
       Ins("walk_ast", "seed"),
       Ins("push_sql", <<" ", "U", "N", "I", "O", "N", " ">>),
       Ins("walk_ast", "step"),
       Ins("push_sql", CLOSE_SP),
       Ins("walk_ast", "body") >>
WithRecursiveWalkAst ==
    << Ins("push_sql", WITH_RECURSIVE_SP),
       Ins("push_identifier", "cte_name"),
       Ins("push_identifiers", "columns"),
       Ins("push_sql", AS_OPEN),
       Ins("walk_ast", "seed"),
       Ins("push_sql", UNION_ALL),
       Ins("walk_ast", "step"),
       Ins("push_sql", CLOSE_SP),
       Ins("walk_ast", "body") >>

WithCteWalkAstNoSpace ==
    << Ins("push_sql", WITH_SP),
       Ins("push_identifier", "cte_name"),
       Ins("push_identifiers", "columns"),
       Ins("push_sql", AS_OPEN),
       Ins("walk_ast", "cte"),
       Ins("push_sql", <<")">>),
       Ins("walk_ast", "body") >>
WithCteWalkAst ==
    << Ins("push_sql", WITH_SP),
       Ins("push_identifier", "cte_name"),
       Ins("push_identifiers", "columns"),
       Ins("push_sql", AS_OPEN),
       Ins("walk_ast", "cte"),
       Ins("push_sql", CLOSE_SP),
       Ins("walk_ast", "body") >>

WalkAst(e) ==
    IF e.variant = "WithRecursive" THEN WithRecursiveWalkAst
    ELSE WithCteWalkAst

\* impl_cte_traits!: QueryId = Self, HAS_STATIC_QUERY_ID = true.
EntityQueryId(e) ==
    IF e.variant = "WithRecursive"
    THEN <<"WithRecursive", e.db, e.columns.marker,
           TypeOf(e.seed), TypeOf(e.step), TypeOf(e.body)>>
    ELSE <<"WithCte", e.db, e.columns.marker, TypeOf(e.cte), TypeOf(e.body)>>
EntityHasStaticQueryId(e) == TRUE

\* The walk in the collaborator's is-safe-to-cache pass visits the same
\* fragments as the render.
EntitySafeToCache(e) ==
    IF e.variant = "WithRecursive"
    THEN FragSafeToCache(e.seed) /\ FragSafeToCache(e.step)
         /\ FragSafeToCache(e.body)
    ELSE FragSafeToCache(e.cte) /\ FragSafeToCache(e.body)

---------------------------------------------------------------------------
(* Inputs.                                                                 *)

CteNames == {<<"t">>, <<"n", DQuote, Backtick>>}
ColNames == {<<"a">>, <<DQuote, Backtick>>}
ColumnLists == UNION {[1..n -> ColNames] : n \in 0..MaxCols}
FragmentPool == {LitS1, LitBind, seed_query(TwoBinds), Failing}

NoOutcome == [sql |-> << >>, binds |-> << >>, res |-> Pending]
Outcome(o, r) == [sql |-> o.sql, binds |-> o.binds, res |-> r]
NoStatement == [sent |-> FALSE, sql |-> << >>]
NoProbe == [way |-> "none"]
NoArgs == [how |-> "none"]

\* The threads that share one entity, and a thread that has not rendered.
Threads == 1..NumThreads
IdleThread == [phase |-> "idle", pc |-> 0, out |-> AstPassNew, res |-> Pending]

\* No statement has been given to the database.
NoEval == [phase |-> "none", bound |-> 0, working |-> << >>,
           result |-> << >>, rows |-> << >>]
Args(how, target, cte_name, columns, frags) ==
    [how |-> how, target |-> target, cte_name |-> cte_name,
     columns |-> columns, frags |-> frags]

Init ==
    /\ entity = NoEntity
    /\ args = NoArgs
    /\ builds = 0
    /\ phase = "idle"
    /\ pc = 0
    /\ out = AstPassNew
    /\ res = Pending
    /\ renders = 0
    /\ first = NoOutcome
    /\ cache = {}
    /\ executed = NoStatement
    /\ probe = NoProbe
    /\ threads = [t \in Threads |-> IdleThread]
    /\ eval = NoEval

---------------------------------------------------------------------------
(* Construction.                                                           *)

Install(e, a) ==
    /\ entity' = e
    /\ args' = a
    /\ builds' = builds + 1
    /\ phase' = "idle"
    /\ pc' = 0
    /\ out' = AstPassNew
    /\ res' = Pending
    /\ renders' = 0
    /\ first' = NoOutcome
    /\ executed' = NoStatement
    /\ UNCHANGED <<cache, probe, threads, eval>>

BuildWithRecursive ==
    /\ entity = NoEntity
    /\ \E db \in RecursiveBackend, n \in CteNames, c \in ColumnLists,
          s \in FragmentPool, t \in FragmentPool, b \in FragmentPool :
          Install(with_recursive(db, n, c, RecursivePartsNew(s, t, b)),
                  Args("builders", db, n, c, <<s, t, b>>))

BuildWithCte ==
    /\ entity = NoEntity
    /\ \E db \in Backends, n \in CteNames, c \in ColumnLists,
          d \in FragmentPool, b \in FragmentPool :
          Install(with_cte(db, n, c, d, b),
                  Args("builders", db, n, c, <<d, b>>))

ExtWithRecursive ==
    /\ entity = NoEntity
    /\ \E conn \in Connections, n \in CteNames, c \in ColumnLists,
          s \in FragmentPool, t \in FragmentPool, b \in FragmentPool :
          Install(ext_with_recursive(conn, n, c, RecursivePartsNew(s, t, b)),
                  Args("ext", conn, n, c, <<s, t, b>>))

ExtWithCte ==
    /\ entity = NoEntity
    /\ \E conn \in Connections, n \in CteNames, c \in ColumnLists,
          d \in FragmentPool, b \in FragmentPool :
          Install(ext_with_cte(conn, n, c, CtePartsNew(d, b)),
                  Args("ext", conn, n, c, <<d, b>>))

---------------------------------------------------------------------------
(* Rendering: the caller creates a pass and walks the entity.              *)

StartRender ==
    /\ entity # NoEntity
    /\ phase \in {"idle", "done"}
    /\ renders < MaxRenders
    /\ phase' = "walking"
    /\ pc' = 1
    /\ out' = AstPassNew
    /\ res' = Pending
    /\ renders' = renders + 1
    /\ executed' = NoStatement
    /\ UNCHANGED <<entity, args, builds, first, cache, probe, threads,
                   eval>>

Cur == WalkAst(entity)[pc]

\* The effect of one statement returning r = [out, res]: `?` returns the
\* error at once; the last statement's value is the value of walk_ast.
Complete(r) ==
    /\ out' = r.out
    /\ IF IsErr(r.res)
       THEN phase' = "done" /\ pc' = pc /\ res' = r.res
       ELSE IF pc = Len(WalkAst(entity))
            THEN phase' = "done" /\ pc' = pc + 1 /\ res' = r.res
            ELSE phase' = "walking" /\ pc' = pc + 1 /\ res' = res
    /\ first' = IF phase' = "done" /\ renders = 1
                THEN Outcome(r.out, res') ELSE first
    /\ UNCHANGED <<entity, args, builds, renders, cache, executed, probe,
                   threads, eval>>

StepPushSql ==
    /\ phase = "walking"
    /\ Cur.op = "push_sql"
    /\ Complete([out |-> PushSql(out, Cur.arg), res |-> Ok])

StepPushIdentifier ==
    /\ phase = "walking"
    /\ Cur.op = "push_identifier"
    /\ Complete(PushIdentifier(out, entity.db, entity.cte_name))

StepPushIdentifiers ==
    /\ phase = "walking"
    /\ Cur.op = "push_identifiers"
    /\ Complete(push_identifiers(out, entity.db, entity.columns))

\* a fragment walked without `?`: its result is dropped
StepWalkFragmentNoTry ==
    /\ phase = "walking"
    /\ Cur.op = "walk_ast"
    /\ Complete([out |-> FragWalk(entity[Cur.arg], out, entity.db).out,
                 res |-> Ok])

StepWalkFragment ==
    /\ phase = "walking"
    /\ Cur.op = "walk_ast"
    /\ Complete(FragWalk(entity[Cur.arg], out, entity.db))

Next ==
    \/ BuildWithRecursive
    \/ BuildWithCte
    \/ ExtWithRecursive
    \/ ExtWithCte
    \/ StartRender
    \/ StepPushSql
    \/ StepPushIdentifier
    \/ StepPushIdentifiers
    \/ StepWalkFragment

Spec == Init /\ [][Next]_vars

---------------------------------------------------------------------------
(* A fragment rendered directly and wrapped in a QueryPart, into the same  *)
(* pass of the same backend.                                               *)

ProbeFragments == FragmentPool \cup {TwoBinds, BoxedA}
StartPasses(db) ==
    {AstPassNew,
     PushSql(AstPassNew, AS_OPEN),
     PushBindParam(PushSql(AstPassNew, AS_OPEN), db, 3)}

Probed(way, f, part, db, start) ==
    [way |-> way, frag |-> f, db |-> db, start |-> start,
     direct |-> FragWalk(f, start, db),
     wrapped |-> FragWalk(part, start, db),
     id |-> FragQueryId(f),
     wrapped_id |-> FragQueryId(part),
     static |-> FragHasStaticQueryId(f),
     wrapped_static |-> FragHasStaticQueryId(part)]

WrapNew ==
    /\ \E f \in ProbeFragments, db \in Backends :
         \E start \in StartPasses(db) :
            probe' = Probed("new", f, QueryPartNew(f), db, start)
    /\ UNCHANGED <<entity, args, builds, phase, pc, out, res, renders, first,
                   cache, executed, threads, eval>>

WrapFrom ==
    /\ \E f \in ProbeFragments, db \in Backends :
         \E start \in StartPasses(db) :
            probe' = Probed("from", f, QueryPartFrom(f), db, start)
    /\ UNCHANGED <<entity, args, builds, phase, pc, out, res, renders, first,
                   cache, executed, threads, eval>>

WrapCteQuery ==
    /\ \E f \in ProbeFragments, db \in Backends :
         \E start \in StartPasses(db) :
            probe' = Probed("cte_query", f, cte_query(f), db, start)
    /\ UNCHANGED <<entity, args, builds, phase, pc, out, res, renders, first,
                   cache, executed, threads, eval>>

WrapSeedQuery ==
    /\ \E f \in ProbeFragments, db \in Backends :
         \E start \in StartPasses(db) :
            probe' = Probed("seed_query", f, seed_query(f), db, start)
    /\ UNCHANGED <<entity, args, builds, phase, pc, out, res, renders, first,
                   cache, executed, threads, eval>>

WrapStepQuery ==
    /\ \E f \in ProbeFragments, db \in Backends :
         \E start \in StartPasses(db) :
            probe' = Probed("step_query", f, step_query(f), db, start)
    /\ UNCHANGED <<entity, args, builds, phase, pc, out, res, renders, first,
                   cache, executed, threads, eval>>

NextWrap ==
    \/ WrapNew
    \/ WrapFrom
    \/ WrapCteQuery
    \/ WrapSeedQuery
    \/ WrapStepQuery

SpecWrap == Init /\ [][NextWrap]_vars

---------------------------------------------------------------------------
(* Execution by the collaborator on one connection: entities are built     *)
(* and rendered one after the other, and a rendered statement is prepared  *)
(* through the connection's statement cache, keyed by the query id when    *)
(* the entity reports a static one and by the SQL text otherwise;          *)
(* a statement that is not safe to cache is prepared afresh.               *)

CacheNames == CteNames
CacheColumnLists == {<< >>, << <<"a">> >>}
CacheFragments == {LitS1, TwoBinds}

RebuildWithRecursive ==
    /\ phase \in {"idle", "done"}
    /\ builds < MaxBuilds
    /\ \E n \in CacheNames, c \in CacheColumnLists,
          s \in CacheFragments, t \in CacheFragments, b \in CacheFragments :
          Install(ext_with_recursive("SqliteConnection", n, c,
                                     RecursivePartsNew(s, t, b)),
                  Args("ext", "SqliteConnection", n, c, <<s, t, b>>))

RebuildWithCte ==
    /\ phase \in {"idle", "done"}
    /\ builds < MaxBuilds
    /\ \E n \in CacheNames, c \in CacheColumnLists,
          d \in CacheFragments, b \in CacheFragments :
          Install(ext_with_cte("SqliteConnection", n, c, CtePartsNew(d, b)),
                  Args("ext", "SqliteConnection", n, c, <<d, b>>))

CacheKey(e, sql) ==
    IF EntityHasStaticQueryId(e) THEN [kind |-> "Type", id |-> EntityQueryId(e),
                                       sql |-> << >>]
    ELSE [kind |-> "Sql", id |-> << >>, sql |-> sql]

Execute ==
    /\ phase = "done"
    /\ res = Ok
    /\ ~executed.sent
    /\ LET key == CacheKey(entity, out.sql)
           hit == {c \in cache : c.key = key}
       IN IF ~EntitySafeToCache(entity)
          THEN /\ executed' = [sent |-> TRUE, sql |-> out.sql]
               /\ cache' = cache
          ELSE IF hit # {}
               THEN /\ executed' = [sent |-> TRUE,
                                    sql |-> (CHOOSE c \in hit : TRUE).sql]
                    /\ cache' = cache
               ELSE /\ executed' = [sent |-> TRUE, sql |-> out.sql]
                    /\ cache' = cache \cup {[key |-> key, sql |-> out.sql]}
    /\ UNCHANGED <<entity, args, builds, phase, pc, out, res, renders, first,
                   probe, threads, eval>>

NextCache ==
    \/ RebuildWithRecursive
    \/ RebuildWithCte
    \/ StartRender
    \/ StepPushSql
    \/ StepPushIdentifier
    \/ StepPushIdentifiers
    \/ StepWalkFragment
    \/ Execute

SpecCache == Init /\ [][NextCache]_vars

---------------------------------------------------------------------------
(* Renders of entities whose fragments fail in different ways: after       *)
(* partial output, or at once; with a column list that may repeat a name.  *)

ErrFragments == {LitBind, Failing, FailingFirst}
ErrColumnLists ==
    {<< >>, << <<"a">> >>, << <<"a">>, <<"a">> >>,
     << <<"a">>, <<DQuote, Backtick>> >>}

BuildErrWithRecursive ==
    /\ entity = NoEntity
    /\ \E db \in RecursiveBackend, n \in CteNames, c \in ErrColumnLists,
          s \in ErrFragments, t \in ErrFragments, b \in ErrFragments :
          Install(with_recursive(db, n, c, RecursivePartsNew(s, t, b)),
                  Args("builders", db, n, c, <<s, t, b>>))

BuildErrWithCte ==
    /\ entity = NoEntity
    /\ \E db \in Backends, n \in CteNames, c \in ErrColumnLists,
          d \in ErrFragments, b \in ErrFragments :
          Install(with_cte(db, n, c, d, b),
                  Args("builders", db, n, c, <<d, b>>))

NextErr ==
    \/ BuildErrWithRecursive
    \/ BuildErrWithCte
    \/ StartRender
    \/ StepPushSql
    \/ StepPushIdentifier
    \/ StepPushIdentifiers
    \/ StepWalkFragment

SpecErr == Init /\ [][NextErr]_vars

---------------------------------------------------------------------------
(* Renders of entities whose column names differ in letter case or in      *)
(* surrounding blanks only.                                                *)

MaxNameCols == 3

NearNames == {<<"i", "d">>, <<"I", "D">>, <<"i", "d", " ">>}
NearColumnLists == UNION {[1..n -> NearNames] : n \in 0..MaxNameCols}

BuildNearWithRecursive ==
    /\ entity = NoEntity
    /\ \E db \in RecursiveBackend, c \in NearColumnLists :
          Install(with_recursive(db, <<"t">>, c,
                                 RecursivePartsNew(LitS1, LitS2, LitS1)),
                  Args("builders", db, <<"t">>, c, <<LitS1, LitS2, LitS1>>))

BuildNearWithCte ==
    /\ entity = NoEntity
    /\ \E db \in Backends, c \in NearColumnLists :
          Install(with_cte(db, <<"t">>, c, LitS1, LitS2),
                  Args("builders", db, <<"t">>, c, <<LitS1, LitS2>>))

NextNear ==
    \/ BuildNearWithRecursive
    \/ BuildNearWithCte
    \/ StartRender
    \/ StepPushSql
    \/ StepPushIdentifier
    \/ StepPushIdentifiers
    \/ StepWalkFragment

SpecNear == Init /\ [][NextNear]_vars

(* Sequences of construction calls: every call that compiles,              *)
(* Sequences of construction calls: every call that compiles,               *)
(* one after the other.  A call that does not satisfy the trait bounds of  *)
(* its function does not compile, so it is no step of the program.         *)

\* with_recursive called with the bound DB: Backend of with_cte
CallWithRecursiveAnyBackend ==
    /\ builds < MaxBuilds
    /\ \E db \in Backends, n \in CacheNames, c \in CacheColumnLists,
          s \in CacheFragments, t \in CacheFragments, b \in CacheFragments :
          Install(with_recursive(db, n, c, RecursivePartsNew(s, t, b)),
                  Args("builders", db, n, c, <<s, t, b>>))

CallWithRecursive ==
    /\ builds < MaxBuilds
    /\ \E db \in RecursiveBackend, n \in CacheNames, c \in CacheColumnLists,
          s \in CacheFragments, t \in CacheFragments, b \in CacheFragments :
          Install(with_recursive(db, n, c, RecursivePartsNew(s, t, b)),
                  Args("builders", db, n, c, <<s, t, b>>))

CallWithCte ==
    /\ builds < MaxBuilds
    /\ \E db \in Backends, n \in CacheNames, c \in CacheColumnLists,
          d \in CacheFragments, b \in CacheFragments :
          Install(with_cte(db, n, c, d, b),
                  Args("builders", db, n, c, <<d, b>>))

CallExtWithRecursive ==
    /\ builds < MaxBuilds
    /\ \E conn \in Connections, n \in CacheNames, c \in CacheColumnLists,
          s \in CacheFragments, t \in CacheFragments, b \in CacheFragments :
          Install(ext_with_recursive(conn, n, c, RecursivePartsNew(s, t, b)),
                  Args("ext", conn, n, c, <<s, t, b>>))

CallExtWithCte ==
    /\ builds < MaxBuilds
    /\ \E conn \in Connections, n \in CacheNames, c \in CacheColumnLists,
          d \in CacheFragments, b \in CacheFragments :
          Install(ext_with_cte(conn, n, c, CtePartsNew(d, b)),
                  Args("ext", conn, n, c, <<d, b>>))

NextBuild ==
    \/ CallWithRecursive
    \/ CallWithCte
    \/ CallExtWithRecursive
    \/ CallExtWithCte

SpecBuild == Init /\ [][NextBuild]_vars

---------------------------------------------------------------------------
(* Several threads rendering one shared entity.  walk_ast takes &self and  *)
(* a pass of the caller's own, so a step of a thread reads the entity and  *)
(* reads and writes that thread's pass only; steps of different threads    *)
(* interleave statement by statement.                                      *)

SharedFragments == {LitBind, Failing}

BuildSharedWithRecursive ==
    /\ entity = NoEntity
    /\ \E db \in RecursiveBackend, c \in ErrColumnLists,
          s \in SharedFragments, t \in SharedFragments, b \in SharedFragments :
          Install(with_recursive(db, <<"t">>, c, RecursivePartsNew(s, t, b)),
                  Args("builders", db, <<"t">>, c, <<s, t, b>>))

BuildSharedWithCte ==
    /\ entity = NoEntity
    /\ \E db \in Backends, c \in ErrColumnLists,
          d \in SharedFragments, b \in SharedFragments :
          Install(with_cte(db, <<"t">>, c, d, b),
                  Args("builders", db, <<"t">>, c, <<d, b>>))

\* One statement of walk_ast of entity e on the pass o.
ExecIns(e, ins, o) ==
    CASE ins.op = "push_sql" -> [out |-> PushSql(o, ins.arg), res |-> Ok]
      [] ins.op = "push_identifier" -> PushIdentifier(o, e.db, e.cte_name)
      [] ins.op = "push_identifiers" -> push_identifiers(o, e.db, e.columns)
      [] ins.op = "walk_ast" -> FragWalk(e[ins.arg], o, e.db)

\* The thread's record after the statement at its pc returned r.
Advance(th, e, r) ==
    IF IsErr(r.res)
    THEN [phase |-> "done", pc |-> th.pc, out |-> r.out, res |-> r.res]
    ELSE IF th.pc = Len(WalkAst(e))
         THEN [phase |-> "done", pc |-> th.pc + 1, out |-> r.out, res |-> r.res]
         ELSE [phase |-> "walking", pc |-> th.pc + 1, out |-> r.out,
               res |-> th.res]

ThreadStart(t) ==
    /\ entity # NoEntity
    /\ threads[t].phase = "idle"
    /\ threads' = [threads EXCEPT ![t] =
                     [phase |-> "walking", pc |-> 1, out |-> AstPassNew,
                      res |-> Pending]]
    /\ UNCHANGED <<entity, args, builds, phase, pc, out, res, renders, first,
                   cache, executed, probe, eval>>

\* a step that takes the column names out of the entity once it has
\* written them
ThreadStepDraining(t) ==
    /\ threads[t].phase = "walking"
    /\ LET th == threads[t]
           ins == WalkAst(entity)[th.pc]
       IN /\ threads' = [threads EXCEPT ![t] =
                           Advance(th, entity, ExecIns(entity, ins, th.out))]
          /\ entity' = IF ins.op = "push_identifiers"
                       THEN [entity EXCEPT !.columns = ColumnsFrom(<< >>)]
                       ELSE entity
    /\ UNCHANGED <<args, builds, phase, pc, out, res, renders, first,
                   cache, executed, probe, eval>>

ThreadStep(t) ==
    /\ threads[t].phase = "walking"
    /\ LET th == threads[t]
           ins == WalkAst(entity)[th.pc]
       IN threads' = [threads EXCEPT ![t] =
                        Advance(th, entity, ExecIns(entity, ins, th.out))]
    /\ UNCHANGED <<entity, args, builds, phase, pc, out, res, renders, first,
                   cache, executed, probe, eval>>

NextConc ==
    \/ BuildSharedWithRecursive
    \/ BuildSharedWithCte
    \/ \E t \in Threads : ThreadStart(t)
    \/ \E t \in Threads : ThreadStep(t)

SpecConc == Init /\ [][NextConc]_vars

---------------------------------------------------------------------------
(* Execution of the counting query of the tests: the entity is built by    *)
(* the extension method of a connection, rendered, and the statement is    *)
(* given to the connection's database, which evaluates a recursive CTE in  *)
(* the standard way: the rows of the seed are the first working set, the   *)
(* step is applied to the previous working set, its rows are appended to   *)
(* the table and become the next working set, until it yields no rows;     *)
(* then the body reads the table.                                          *)

BuildSequence ==
    /\ entity = NoEntity
    /\ \E conn \in Connections, n \in 1..MaxN :
          Install(ext_with_recursive(conn, <<"t">>, << <<"n">> >>,
                     RecursivePartsNew(SelectOne, StepUpTo(n), SelectN)),
                  Args("ext", conn, <<"t">>, << <<"n">> >>,
                       <<SelectOne, StepUpTo(n), SelectN>>))

\* The statements the database's evaluation below is the meaning of.
StatementHead(q) ==
    <<"W", "I", "T", "H", " ", "R", "E", "C", "U", "R", "S", "I", "V",
      "E", " ">>
    \o <<q, "t", q, " ", "(", q, "n", q, ")">>
    \o
    <<" ", "A", "S", " ", "(", "S", "E", "L", "E", "C", "T", " ", "1", " ",
      "U", "N", "I", "O", "N", " ", "A", "L", "L", " ", "S", "E", "L",
      "E", "C", "T", " ", "n", " ", "+", " ", "1", " ", "F", "R", "O",
      "M", " ", "t", " ", "W", "H", "E", "R", "E", " ", "n", " ", "<",
      " ">>
StatementTail ==
    <<")", " ", "S", "E", "L", "E", "C", "T", " ", "n", " ", "F", "R",
      "O", "M", " ", "t">>
SequenceStatement(db, n) ==
    StatementHead(IF db = "Pg" THEN "\"" ELSE "BQ") \o Decimal(n)
    \o StatementTail

\* The bound of the counting statement sql, 0 for any other text.
ParseBound(db, sql) ==
    LET ns == {n \in 1..MaxN : sql = SequenceStatement(db, n)} IN
    IF ns = {} THEN 0 ELSE CHOOSE n \in ns : TRUE

\* SELECT n + 1 FROM t WHERE n < bound, t being the working set.
StepRows(working, bound) ==
    LET keep == SelectSeq(working, LAMBDA n : n < bound) IN
    [i \in 1..Len(keep) |-> keep[i] + 1]

LoadStatement ==
    /\ phase = "done"
    /\ res = Ok
    /\ ~executed.sent
    /\ eval.phase = "none"
    /\ executed' = [sent |-> TRUE, sql |-> out.sql]
    /\ eval' = LET n == ParseBound(entity.db, out.sql) IN
               IF n = 0 THEN [NoEval EXCEPT !.phase = "error"]
               ELSE [NoEval EXCEPT !.phase = "seed", !.bound = n]
    /\ UNCHANGED <<entity, args, builds, phase, pc, out, res, renders, first,
                   cache, probe, threads>>

EvalSeed ==
    /\ eval.phase = "seed"
    /\ eval' = [eval EXCEPT !.phase = "step", !.working = <<1>>,
                            !.result = <<1>>]
    /\ UNCHANGED <<entity, args, builds, phase, pc, out, res, renders, first,
                   cache, executed, probe, threads>>

EvalStep ==
    /\ eval.phase = "step"
    /\ LET new == StepRows(eval.working, eval.bound) IN
       eval' = IF new = << >>
               THEN [eval EXCEPT !.phase = "body", !.working = << >>]
               ELSE [eval EXCEPT !.working = new, !.result = @ \o new]
    /\ UNCHANGED <<entity, args, builds, phase, pc, out, res, renders, first,
                   cache, executed, probe, threads>>

EvalBody ==
    /\ eval.phase = "body"
    /\ eval' = [eval EXCEPT !.phase = "done", !.rows = eval.result]
    /\ UNCHANGED <<entity, args, builds, phase, pc, out, res, renders, first,
                   cache, executed, probe, threads>>

NextEval ==
    \/ BuildSequence
    \/ StartRender
    \/ StepPushSql
    \/ StepPushIdentifier
    \/ StepPushIdentifiers
    \/ StepWalkFragment
    \/ LoadStatement
    \/ EvalSeed
    \/ EvalStep
    \/ EvalBody

\* The database runs an evaluation it has begun until it ends.
SpecEval ==
    /\ Init
    /\ [][NextEval]_vars
    /\ WF_vars(EvalSeed)
    /\ WF_vars(EvalStep)
    /\ WF_vars(EvalBody)

---------------------------------------------------------------------------
(* Vocabulary of the properties.  The expected text is written from the    *)
(* arguments the entity was built from (args), independently of the        *)
(* definitions above.                                                      *)

RECURSIVE Cat(_)
Cat(ss) == IF ss = << >> THEN << >> ELSE Head(ss) \o Cat(Tail(ss))

IsPrefix(p, t) == Len(p) <= Len(t) /\ SubSeq(t, 1, Len(p)) = p

\* The backend the entity is built for: given to the builders, inferred
\* from the connection type by the extension trait.
ArgDb ==
    IF args.how = "builders" THEN args.target
    ELSE IF args.target \in {"PgConnection", "AsyncPgConnection"} THEN "Pg"
    ELSE "Sqlite"

\* An identifier quoted for a backend: the quote character around the
\* name, each quote character of the name doubled.
Quoted(db, id) ==
    LET q == IF db = "Pg" THEN "\"" ELSE "BQ" IN
    <<q>> \o Cat([i \in 1..Len(id) |->
                    IF id[i] = q THEN <<q, q>> ELSE <<id[i]>>]) \o <<q>>

Distinct(names) ==
    \A i, j \in 1..Len(names) : names[i] = names[j] => i = j

\* " (" + quoted names separated by ", " + ")", nothing for no names.
ColumnClause(db, names) ==
    IF names = << >> THEN << >>
    ELSE <<" ", "(">>
         \o Cat([i \in 1..Len(names) |->
                   (IF i = 1 THEN << >> ELSE <<",", " ">>)
                   \o Quoted(db, names[i])])
         \o <<")">>

\* A fragment's own nodes (a QueryPart has those of what it wraps), the
\* bind values it holds, whether its rendering succeeds, and the text it
\* writes when k binds were collected before it.
RECURSIVE NodesOf(_)
NodesOf(f) == IF f.ty = "QueryPart" THEN NodesOf(f.inner) ELSE f.nodes

Renders(f) == \A i \in 1..Len(NodesOf(f)) : NodesOf(f)[i].k # "fail"
Written(f) ==
    LET n == NodesOf(f)
        stops == {i \in 1..Len(n) : n[i].k = "fail"}
    IN IF stops = {} THEN n
       ELSE SubSeq(n, 1, (CHOOSE i \in stops : \A j \in stops : i <= j) - 1)
BindsOf(f) ==
    LET n == Written(f) IN
    Cat([i \in 1..Len(n) |-> IF n[i].k = "bind" THEN <<n[i].v>> ELSE << >>])
TextOf(f, db, k) ==
    LET n == Written(f) IN
    Cat([i \in 1..Len(n) |->
           IF n[i].k = "sql" THEN n[i].s
           ELSE IF db = "Pg"
                THEN <<"$">> \o Decimal(
                       k + Cardinality({j \in 1..i : n[j].k = "bind"}))
                ELSE <<"?">>])

ArgFrag(i) == args.frags[i]
BindsBefore(i) == Len(Cat([j \in 1..(i - 1) |-> BindsOf(ArgFrag(j))]))
ArgText(i) == TextOf(ArgFrag(i), ArgDb, BindsBefore(i))
AllRender == \A i \in 1..Len(args.frags) : Renders(ArgFrag(i))

TxtWith == <<"W", "I", "T", "H", " ">>
TxtWithRecursive ==
    <<"W", "I", "T", "H", " ", "R", "E", "C", "U", "R", "S", "I", "V", "E", " ">>
TxtAsOpen == <<" ", "A", "S", " ", "(">>
TxtUnionAll == <<" ", "U", "N", "I", "O", "N", " ", "A", "L", "L", " ">>
TxtClose == <<")", " ">>

Finished == phase = "done"

---------------------------------------------------------------------------
(* C1: a finished render of a non-recursive CTE built from a column list   *)
(* without duplicates and fragments that all render returns Ok, and its    *)
(* text is exactly "WITH " + quoted name + column clause + " AS (" +       *)
(* definition text + ") " + body text.                                     *)

C1_NonRecursiveText ==
    (/\ Finished
     /\ entity.variant = "WithCte"
     /\ Distinct(args.columns)
     /\ AllRender)
    => /\ res = Ok
       /\ out.sql = TxtWith \o Quoted(ArgDb, args.cte_name)
                      \o ColumnClause(ArgDb, args.columns)
                      \o TxtAsOpen \o ArgText(1) \o TxtClose \o ArgText(2)

C1_Witness ==
    /\ Finished
    /\ entity.variant = "WithCte"
    /\ res = Ok
    /\ ArgDb = "Pg"
    /\ Len(args.columns) = 2
    /\ args.cte_name = <<"n", DQuote, Backtick>>
    /\ args.frags = <<LitBind, seed_query(TwoBinds)>>

---------------------------------------------------------------------------
(* C2: a finished render of a recursive CTE built from a column list       *)
(* without duplicates and fragments that all render returns Ok, and its    *)
(* text is exactly "WITH RECURSIVE " + quoted name + column clause +       *)
(* " AS (" + seed text + " UNION ALL " + step text + ") " + body text.     *)
(* The text is a function of the arguments alone, so the extension method  *)
(* of a connection and builders::with_recursive for that connection's      *)
(* backend give the same text.                                             *)

C2_RecursiveText ==
    (/\ Finished
     /\ entity.variant = "WithRecursive"
     /\ Distinct(args.columns)
     /\ AllRender)
    => /\ res = Ok
       /\ out.sql = TxtWithRecursive \o Quoted(ArgDb, args.cte_name)
                      \o ColumnClause(ArgDb, args.columns)
                      \o TxtAsOpen \o ArgText(1) \o TxtUnionAll \o ArgText(2)
                      \o TxtClose \o ArgText(3)

C2_Witness ==
    /\ Finished
    /\ entity.variant = "WithRecursive"
    /\ res = Ok
    /\ args.how = "ext"
    /\ args.target = "AsyncPgConnection"
    /\ Len(args.columns) = 1
    /\ args.frags = <<LitS1, LitBind, seed_query(TwoBinds)>>

---------------------------------------------------------------------------
(* C3: the binds a render has collected are a prefix of the fragments'     *)
(* own bind sequences concatenated in textual order (definition, body;     *)
(* seed, step, body), and all of them once the render returned Ok.  Then   *)
(* the text holds one placeholder per bind, and on a backend with numbered *)
(* placeholders the i-th placeholder of the text is number i.              *)

ArgBinds == Cat([i \in 1..Len(args.frags) |-> BindsOf(ArgFrag(i))])
PlaceholderAt(t) == {i \in 1..Len(t) : t[i] \in {"?", "$"}}

C3_BindOrder ==
    Finished =>
      /\ IsPrefix(out.binds, ArgBinds)
      /\ res = Ok =>
           /\ out.binds = ArgBinds
           /\ Cardinality(PlaceholderAt(out.sql)) = Len(out.binds)
           /\ ArgDb = "Pg" =>
                \A i \in PlaceholderAt(out.sql) :
                   SubSeq(out.sql, i + 1, i + 1) =
                     Decimal(Cardinality({j \in PlaceholderAt(out.sql) : j <= i}))

C3_Witness ==
    /\ Finished
    /\ res = Ok
    /\ entity.variant = "WithRecursive"
    /\ ArgDb = "Pg"
    /\ out.binds = <<7, 8, 5, 7, 8>>

---------------------------------------------------------------------------
(* C4: a finished render of either variant built from a column list that   *)
(* repeats a name returned Err(QueryBuilderError) whose message is         *)
(* "duplicate column name '<name>' in CTE", <name> being the name at the   *)
(* first position, scanning left to right, that repeats an earlier one.    *)

Repeats(names, j) == \E i \in 1..(j - 1) : names[i] = names[j]
FirstRepeat(names) ==
    names[CHOOSE j \in 1..Len(names) :
            /\ Repeats(names, j)
            /\ \A k \in 1..(j - 1) : ~Repeats(names, k)]

C4_DuplicateRejected ==
    (Finished /\ ~Distinct(args.columns))
    => /\ res.tag = "Err"
       /\ res.kind = "QueryBuilderError"
       /\ res.msg = <<"duplicate column name '", FirstRepeat(args.columns),
                      "' in CTE">>

C4_Witness ==
    /\ Finished
    /\ args.columns = <<<<"a">>, <<DQuote, Backtick>>, <<DQuote, Backtick>>, <<"a">>>>
    /\ IsErr(res)
    /\ res.msg[2] = <<DQuote, Backtick>>

---------------------------------------------------------------------------
(* C5: right after push_identifiers ran on a non-empty column list of      *)
(* distinct names, the text is the keyword and the quoted CTE name         *)
(* followed by exactly " (" + the names in input order, each quoted for    *)
(* the backend, separated by ", " + ")".                                   *)

AfterColumns == phase = "walking" /\ pc = 4
Keyword == IF entity.variant = "WithRecursive" THEN TxtWithRecursive ELSE TxtWith

C5_ColumnClause ==
    (AfterColumns /\ args.columns # << >> /\ Distinct(args.columns))
    => out.sql = Keyword \o Quoted(ArgDb, args.cte_name)
                   \o <<" ", "(">>
                   \o Cat([i \in 1..Len(args.columns) |->
                             (IF i = 1 THEN << >> ELSE <<",", " ">>)
                             \o Quoted(ArgDb, args.columns[i])])
                   \o <<")">>

C5_Witness ==
    /\ AfterColumns
    /\ ArgDb = "Sqlite"
    /\ args.columns = <<<<DQuote, Backtick>>, <<"a">>>>
    /\ out.sql = TxtWith \o <<Backtick, "t", Backtick, " ", "(",
                              Backtick, DQuote, Backtick, Backtick, Backtick,
                              ",", " ", Backtick, "a", Backtick, ")">>

---------------------------------------------------------------------------
(* C6 as stated: a finished render of an entity built with an empty        *)
(* column list succeeded, and in its text the quoted CTE name is followed  *)
(* directly by " AS (".                                                    *)

C6_AsStated ==
    (Finished /\ args.columns = << >>)
    => /\ res = Ok
       /\ IsPrefix(Keyword \o Quoted(ArgDb, args.cte_name) \o TxtAsOpen,
                   out.sql)

(* C6 amended: for an empty column list push_identifiers returns Ok and    *)
(* writes nothing, so the quoted CTE name is followed directly by " AS ("  *)
(* in the text of either variant; the render succeeds whenever its         *)
(* fragments render, and otherwise returns the failing fragment's error.   *)

C6_EmptyColumns ==
    (entity # NoEntity /\ args.columns = << >>)
    => /\ AfterColumns =>
            /\ res = Pending
            /\ out.sql = Keyword \o Quoted(ArgDb, args.cte_name)
       /\ Finished =>
            /\ IsPrefix(Keyword \o Quoted(ArgDb, args.cte_name) \o TxtAsOpen,
                        out.sql)
            /\ AllRender => res = Ok
            /\ ~AllRender => res = SerializationError

C6_Witness ==
    /\ Finished
    /\ args.columns = << >>
    /\ entity.variant = "WithRecursive"
    /\ res = Ok
    /\ out.sql = TxtWithRecursive \o <<DQuote, "t", DQuote>> \o TxtAsOpen
                   \o <<"S", "1">> \o TxtUnionAll \o <<"S", "1">>
                   \o TxtClose \o <<"S", "1">>

---------------------------------------------------------------------------
(* C7 as stated: whenever a finished render returned an error, the output  *)
(* buffer holds no text of the statement.                                  *)

C7_AsStated == (Finished /\ IsErr(res)) => out.sql = << >>

(* C7 amended: a render that returned an error leaves in the buffer the    *)
(* text written before the failure and nothing after it: the keyword and   *)
(* the quoted CTE name alone for a duplicate column name (push_identifiers *)
(* writes nothing when it fails), and for a failing fragment the text of   *)
(* the statements before it followed by what the fragment itself wrote.    *)
(* The buffer is never empty then, and the Err is the outcome.  A render   *)
(* that returned Ok ran every statement and the buffer holds the whole     *)
(* statement.                                                              *)

Pieces ==
    LET name == Quoted(ArgDb, args.cte_name)
        cols == IF Distinct(args.columns)
                THEN ColumnClause(ArgDb, args.columns) ELSE << >>
    IN IF entity.variant = "WithRecursive"
       THEN <<TxtWithRecursive, name, cols, TxtAsOpen, ArgText(1),
              TxtUnionAll, ArgText(2), TxtClose, ArgText(3)>>
       ELSE <<TxtWith, name, cols, TxtAsOpen, ArgText(1), TxtClose,
              ArgText(2)>>

C7_FailedRender ==
    Finished =>
      /\ res # Pending
      /\ IsErr(res) =>
           /\ pc \in 3..Len(Pieces)
           /\ out.sql = Cat(SubSeq(Pieces, 1, pc))
           /\ out.sql # << >>
           /\ ~Distinct(args.columns) =>
                out.sql = Keyword \o Quoted(ArgDb, args.cte_name)
      /\ res = Ok =>
           /\ pc = Len(Pieces) + 1
           /\ out.sql = Cat(Pieces)

C7_Witness ==
    /\ Finished
    /\ IsErr(res)
    /\ res.kind = "QueryBuilderError"
    /\ Len(args.columns) = 3
    /\ out.sql = TxtWithRecursive \o <<DQuote, "t", DQuote>>

---------------------------------------------------------------------------
(* C8: a render leaves the entity as it was built, and every later render  *)
(* of the same entity into a fresh pass ends with the outcome of the first *)
(* one: the same text and binds, and the same Ok or the same error.        *)

AsBuilt ==
    IF Len(args.frags) = 3
    THEN [variant |-> "WithRecursive", db |-> ArgDb,
          cte_name |-> args.cte_name,
          columns |-> [names |-> args.columns, marker |-> "Cols"],
          seed |-> ArgFrag(1), step |-> ArgFrag(2), body |-> ArgFrag(3)]
    ELSE [variant |-> "WithCte", db |-> ArgDb,
          cte_name |-> args.cte_name,
          columns |-> [names |-> args.columns, marker |-> "Cols"],
          cte |-> ArgFrag(1), body |-> ArgFrag(2)]

---------------------------------------------------------------------------
(* C9: a fragment wrapped in a QueryPart (QueryPart::new, From,            *)
(* cte_query!, seed_query!, step_query!) and walked into a pass leaves the *)
(* pass and returns the result that walking the fragment itself does: the  *)
(* same text, the same binds in the same order, the same Ok or error; and  *)
(* the wrapper reports the fragment's QueryId and HAS_STATIC_QUERY_ID.     *)

C9_WrapperTransparent ==
    probe.way # "none" =>
      /\ probe.wrapped.out.sql = probe.direct.out.sql
      /\ probe.wrapped.out.binds = probe.direct.out.binds
      /\ probe.wrapped.res = probe.direct.res
      /\ probe.wrapped_id = probe.id
      /\ probe.wrapped_static = probe.static

C9_Witness ==
    /\ probe.way = "step_query"
    /\ probe.frag = TwoBinds
    /\ probe.db = "Pg"
    /\ probe.wrapped.res = Ok
    /\ probe.wrapped.out.binds = <<3, 7, 8>>
    /\ probe.wrapped.out.sql = AS_OPEN \o <<"$", "1", "$", "2", "+", "$", "3">>

---------------------------------------------------------------------------
(* C10: the statement the collaborator sends for an entity, taken from its *)
(* statement cache under the identity the entity reports, is the SQL text  *)
(* the entity renders: no statement cached for one entity is reused for an *)
(* entity with another CTE name, column list or fragment text.             *)

C10_CachedStatementIsOwn ==
    executed.sent => executed.sql = out.sql

---------------------------------------------------------------------------
(* C11 as stated: every entity that exists holds a column list whose names *)
(* are pairwise distinct.                                                  *)

C11_AsStated ==
    entity # NoEntity => Distinct(entity.columns.names)

(* C11 amended: an entity may hold a column list that repeats a name, and  *)
(* the repetition is an error of every render of it: the render returns    *)
(* the duplicate-column error at the column clause, before any column or   *)
(* fragment text is written, and never returns Ok.  So every statement     *)
(* that was rendered to the end belongs to an entity whose column names    *)
(* are pairwise distinct.                                                  *)

C11_DuplicatesCaughtAtRender ==
    entity # NoEntity =>
      /\ ~Distinct(entity.columns.names) =>
           /\ res # Ok
           /\ phase = "walking" => pc <= 3
           /\ Finished =>
                /\ IsErr(res)
                /\ res.kind = "QueryBuilderError"
                /\ pc = 3
                /\ out.binds = << >>
      /\ (Finished /\ res = Ok) => Distinct(entity.columns.names)

C11_Witness ==
    /\ Finished
    /\ entity.variant = "WithCte"
    /\ entity.columns.names = << <<"a">>, <<"a">> >>
    /\ IsErr(res)
    /\ pc = 3

---------------------------------------------------------------------------
(* C15: construction performs no column validation.  Every build returns   *)
(* an entity of the variant asked for, holding the column list exactly as  *)
(* it was given, repeated names included, and no error exists before a     *)
(* render.  The duplicate-column error is produced only by the column      *)
(* clause statement of a render, and by every render of an entity whose    *)
(* list repeats a name, the second as the first.                           *)

C15_NoValidationAtConstruction ==
    /\ builds > 0 =>
         /\ entity.variant = (IF Len(args.frags) = 3 THEN "WithRecursive"
                              ELSE "WithCte")
         /\ entity.columns.names = args.columns
    /\ renders = 0 => res = Pending
    /\ (IsErr(res) /\ res.kind = "QueryBuilderError") =>
         /\ renders >= 1
         /\ Finished
         /\ WalkAst(entity)[pc].op = "push_identifiers"
    /\ (Finished /\ ~Distinct(args.columns)) =>
         (IsErr(res) /\ res.kind = "QueryBuilderError")

C15_Witness ==
    /\ builds = 1
    /\ entity.variant = "WithRecursive"
    /\ entity.columns.names = << <<"a">>, <<DQuote, Backtick>>, <<"a">> >>
    /\ renders = 2
    /\ Finished
    /\ IsErr(res)
    /\ first.res = res

---------------------------------------------------------------------------
(* C14: a render stops at its first failing step and returns that step's   *)
(* error as it was produced.  With a repeated column name the result is    *)
(* the validator's error, whatever the fragments would do, and the buffer  *)
(* holds the keyword and the quoted name and no bind.  Otherwise, with a   *)
(* fragment that fails, the result is the error of the first such fragment *)
(* in textual order, and the buffer holds the text and binds written up to *)
(* the point where that fragment failed and nothing of any later step.     *)
(* With neither, the render returns Ok.                                    *)

FailOf(f) ==
    LET n == NodesOf(f)
        stops == {i \in 1..Len(n) : n[i].k = "fail"}
    IN n[CHOOSE i \in stops : \A j \in stops : i <= j].e

BadFrags == {i \in 1..Len(args.frags) : ~Renders(ArgFrag(i))}
FirstBad == CHOOSE i \in BadFrags : \A j \in BadFrags : i <= j

C14_FirstErrorUnchanged ==
    /\ phase = "walking" => res = Pending
    /\ Finished =>
         /\ ~Distinct(args.columns) =>
              /\ res = [tag |-> "Err", kind |-> "QueryBuilderError",
                        msg |-> <<"duplicate column name '",
                                  FirstRepeat(args.columns), "' in CTE">>]
              /\ out.sql = Keyword \o Quoted(ArgDb, args.cte_name)
              /\ out.binds = << >>
         /\ (Distinct(args.columns) /\ BadFrags # {}) =>
              /\ res = FailOf(ArgFrag(FirstBad))
              /\ out.sql = Cat(SubSeq(Pieces, 1, 3 + 2 * FirstBad))
              /\ out.binds = Cat([j \in 1..FirstBad |-> BindsOf(ArgFrag(j))])
         /\ (Distinct(args.columns) /\ BadFrags = {}) => res = Ok

C14_Witness ==
    /\ Finished
    /\ entity.variant = "WithRecursive"
    /\ args.columns = << <<"a">> >>
    /\ args.frags = <<LitBind, Failing, FailingFirst>>
    /\ res = SerializationError
    /\ out.binds = <<5, 9>>

---------------------------------------------------------------------------
(* C16: duplicate detection is exact string equality.  A finished render   *)
(* returned the duplicate-column error if and only if two positions of the *)
(* column list hold the same characters in the same order, and the error   *)
(* names that string as given.  A list whose names differ, be it only in   *)
(* letter case or in a surrounding blank, renders successfully with every  *)
(* name in the column clause as given.                                     *)

SameString(x, y) ==
    /\ Len(x) = Len(y)
    /\ \A k \in 1..Len(x) : x[k] = y[k]
HasIdenticalPair(names) ==
    \E i, j \in 1..Len(names) : i < j /\ SameString(names[i], names[j])
HasNearPair(names) ==
    \E i, j \in 1..Len(names) :
       /\ i < j
       /\ ~SameString(names[i], names[j])
       /\ Folded(names[i]) = Folded(names[j])

C16_ExactComparison ==
    Finished =>
      /\ IsErr(res) <=> HasIdenticalPair(args.columns)
      /\ IsErr(res) =>
           /\ res.kind = "QueryBuilderError"
           /\ \E i, j \in 1..Len(args.columns) :
                 i < j /\ SameString(args.columns[i], res.msg[2])
                       /\ SameString(args.columns[j], res.msg[2])
      /\ ~HasIdenticalPair(args.columns) =>
           /\ res = Ok
           /\ IsPrefix(Keyword \o Quoted(ArgDb, args.cte_name)
                         \o ColumnClause(ArgDb, args.columns) \o TxtAsOpen,
                       out.sql)

C16_Witness ==
    /\ Finished
    /\ res = Ok
    /\ args.columns = << <<"i", "d">>, <<"I", "D">>, <<"i", "d", " ">> >>
    /\ HasNearPair(args.columns)
    /\ ArgDb = "Pg"

---------------------------------------------------------------------------
(* C13: after any sequence of construction calls, an entity that is a      *)
(* WithRecursive is one for Sqlite or Pg, whether it came from             *)
(* builders::with_recursive or from the extension method of a connection;  *)
(* a backend outside the set (Mysql) only ever has a WithCte.  No call     *)
(* returns an error value: what a call returns is the entity.              *)

C13_RecursiveOnlyOnCapable ==
    builds > 0 =>
      /\ entity.variant \in {"WithRecursive", "WithCte"}
      /\ res = Pending
      /\ entity.variant = "WithRecursive" => entity.db \in {"Sqlite", "Pg"}
      /\ entity.db \notin {"Sqlite", "Pg"} =>
           (entity.variant = "WithCte" /\ args.how = "builders")

C13_Witness ==
    /\ builds = 2
    /\ entity.variant = "WithRecursive"
    /\ entity.db = "Pg"
    /\ args.how = "builders"

---------------------------------------------------------------------------
(* C17: under every interleaving of the statements of the renders of two   *)
(* or more threads on one shared entity, each into its own pass, the       *)
(* entity stays as it was built, the text and binds of each render are at  *)
(* every moment a prefix of what a render of that entity running alone     *)
(* writes, and a finished render has exactly the text, binds and result of *)
(* the render running alone.                                               *)

RECURSIVE RunAlone(_, _, _)
RunAlone(e, i, o) ==
    IF i > Len(WalkAst(e)) THEN [out |-> o, res |-> Ok]
    ELSE LET r == ExecIns(e, WalkAst(e)[i], o) IN
         IF IsErr(r.res) THEN r ELSE RunAlone(e, i + 1, r.out)

Alone == RunAlone(AsBuilt, 1, AstPassNew)

C17_ConcurrentRenders ==
    entity # NoEntity =>
      /\ entity = AsBuilt
      /\ \A t \in Threads :
           /\ IsPrefix(threads[t].out.sql, Alone.out.sql)
           /\ IsPrefix(threads[t].out.binds, Alone.out.binds)
           /\ threads[t].phase = "done" =>
                /\ threads[t].out = Alone.out
                /\ threads[t].res = Alone.res
           /\ threads[t].phase # "done" => threads[t].res = Pending

C17_Witness ==
    /\ entity # NoEntity
    /\ entity.variant = "WithRecursive"
    /\ entity.columns.names = << <<"a">>, <<DQuote, Backtick>> >>
    /\ threads[1].phase = "done"
    /\ threads[1].res = Ok
    /\ threads[1].out.binds = <<5, 5, 5>>
    /\ threads[2].phase = "walking"
    /\ threads[2].pc = 6

---------------------------------------------------------------------------
(* C12: the database accepts the rendered counting statement, and its      *)
(* evaluation, once begun, ends: the table grows along 1, 2, ... and never *)
(* past the bound N of the step's predicate, and the rows returned are     *)
(* exactly 1, 2, ..., N in ascending order, N being the bound the step     *)
(* fragment of the entity was written with; nothing but the step's         *)
(* predicate ends the iteration.                                           *)

SeqTo(n) == [i \in 1..n |-> i]

CountingInv ==
    /\ eval.phase # "error"
    /\ eval.phase # "none" =>
         /\ eval.bound \in 1..MaxN
         /\ ArgFrag(2) = StepUpTo(eval.bound)
         /\ IsPrefix(eval.result, SeqTo(eval.bound))
    /\ eval.phase = "step" =>
         eval.working = <<Len(eval.result)>>
    /\ eval.phase \in {"body", "done"} => eval.result = SeqTo(eval.bound)
    /\ eval.phase = "done" => eval.rows = SeqTo(eval.bound)

C12_CountsToN ==
    /\ []CountingInv
    /\ (eval.phase = "seed") ~> (eval.phase = "done")

C12_Witness ==
    /\ eval.phase = "done"
    /\ args.target = "PgConnection"
    /\ eval.bound = 5
    /\ eval.rows = <<1, 2, 3, 4, 5>>

====
